---- MODULE Spec2Model ----
(***************************************************************************)
(* Model of the Discovery & Interaction Controller of the recommendation   *)
(* front end (App component, SearchBar, Navigation).  Strings that the     *)
(* code trims are sequences of tokens, the token " " being white space.    *)
(* A request is a record of its query parameters; a response is tagged     *)
(* with the request it answers.                                            *)
(***************************************************************************)
EXTENDS Integers, Sequences, FiniteSets, TLC

\* ------------------------------------------------------------------ bounds
MaxIntents == 2      \* user intents handled in one behaviour of Spec
MaxLifeIntents == 1  \* user intents handled in one behaviour of SpecLife
MaxTicks == 1        \* interval ticks in one behaviour of SpecLife
MaxGestures == 2     \* gestures and intents in one behaviour of SpecEmit
MaxAllSteps == 1     \* intents, gestures and ticks in one behaviour of SpecAll
MaxModalGestures == 4  \* gestures in one behaviour of SpecModal

\* --------------------------------------------------------------- constants
PollMs == 30000
RecN == 20
SearchLimit == 20
AnimateInMs == 100
VisibleMs == 3000
ExitMs == 300
CloseDelayMs == 1500
CardViewSpan == 300
CardViewBase == 30
ModalViewSpan == 600
ModalViewBase == 60

DemoUser == <<"demo_user_1">>
RecErrMsg == "Failed to fetch recommendations. Please try again."
SearchErrMsg == "Search failed. Please try again."
Null == "null"
NoAb == [gen |-> 0, user_id |-> <<>>]

\* inputs the view layer can hand to the controller
UserIds == {<<>>, <<" ">>, DemoUser, <<"u2", " ">>}
RawQueries == {<<" ">>, <<"q1">>, <<" ", "q2", " ">>}
ContentTypes == {"", "video"}
SearchTypes == {"simple", "ai"}
Tabs == {"recommendations", "search"}

\* ----------------------------------------------------------------- helpers
RECURSIVE TrimStart(_)
TrimStart(s) == IF s # <<>> /\ Head(s) = " " THEN TrimStart(Tail(s)) ELSE s

RECURSIVE TrimEnd(_)
TrimEnd(s) ==
  IF s # <<>> /\ s[Len(s)] = " " THEN TrimEnd(SubSeq(s, 1, Len(s) - 1)) ELSE s

\* a trim that strips nothing
TrimNothing(s) == s

\* String.prototype.trim
Trim(s) == TrimEnd(TrimStart(s))

\* x || []  for a response field that may be missing
OrEmpty(field) == IF field.present THEN field.v ELSE <<>>

VARIABLES
  phase,              \* "constructed", "mounted", "unmounted"
  currentUser, recommendations, searchResults, contentTypeFilter, searchType,
  loading, searchLoading, stats, abTestInfo, algorithm, error,
  activeTab, lastSearchQuery,
  interval,           \* delay of the live setInterval timer, 0 when none
  intervalSeq,        \* setInterval calls so far
  recInFlight, searchInFlight, statsInFlight, abInFlight,
  recSent, searchSent, statsSent, abSent,
  pollSent,           \* stats requests dispatched by the polling effect
  ticks,              \* interval callbacks that have run
  intents,            \* user intents handled so far
  lastOp,             \* the latest stimulus handled: mount, an intent, a tick,
                      \* the teardown; responses leave it alone
  selectedItem,       \* <<>> for null, <<item>> for an item
  isModalOpen,
  closeTimers,        \* remaining ms of the pending setTimeout(onClose) calls
  eventInFlight, eventSent,
  notifications,      \* the notification nodes in document.body, in order
  notifSeq,           \* nodes created so far
  removed,            \* nodes taken out of document.body, with their age
  clicks              \* card and modal gestures handled so far

viewVars == <<currentUser, recommendations, searchResults, contentTypeFilter,
              searchType, loading, searchLoading, stats, abTestInfo, algorithm,
              error, activeTab, lastSearchQuery>>
netVars == <<recInFlight, searchInFlight, statsInFlight, abInFlight,
             recSent, searchSent, statsSent, abSent>>
pollVars == <<interval, intervalSeq, pollSent, ticks>>
emitVars == <<selectedItem, isModalOpen, closeTimers, eventInFlight, eventSent,
              notifications, notifSeq, removed, clicks>>
vars == <<phase, viewVars, netVars, pollVars, intents, lastOp, emitVars>>

Op(name, arg) == [op |-> name, arg |-> arg]

\* an initial state that starts on the search tab
InitOnSearchTab ==
  /\ phase = "constructed"
  /\ currentUser = DemoUser
  /\ recommendations = <<>>
  /\ searchResults = <<>>
  /\ contentTypeFilter = ""
  /\ searchType = "simple"
  /\ loading = FALSE
  /\ searchLoading = FALSE
  /\ stats = 0
  /\ abTestInfo = NoAb
  /\ algorithm = 0
  /\ error = Null
  /\ activeTab = "search"
  /\ lastSearchQuery = <<>>
  /\ interval = 0
  /\ recInFlight = {} /\ searchInFlight = {} /\ statsInFlight = {} /\ abInFlight = {}
  /\ recSent = 0 /\ searchSent = 0 /\ statsSent = 0 /\ abSent = 0
  /\ pollSent = 0
  /\ intervalSeq = 0
  /\ ticks = 0
  /\ intents = 0
  /\ lastOp = Op("init", <<>>)
  /\ selectedItem = <<>>
  /\ isModalOpen = FALSE
  /\ closeTimers = <<>>
  /\ eventInFlight = {} /\ eventSent = 0
  /\ notifications = <<>>
  /\ notifSeq = 0
  /\ removed = {}
  /\ clicks = 0

\* -------------------------------------------------------------------- Init
Init ==
  /\ phase = "constructed"
  /\ currentUser = DemoUser
  /\ recommendations = <<>>
  /\ searchResults = <<>>
  /\ contentTypeFilter = ""
  /\ searchType = "simple"
  /\ loading = FALSE
  /\ searchLoading = FALSE
  /\ stats = 0
  /\ abTestInfo = NoAb
  /\ algorithm = 0
  /\ error = Null
  /\ activeTab = "recommendations"
  /\ lastSearchQuery = <<>>
  /\ interval = 0
  /\ recInFlight = {} /\ searchInFlight = {} /\ statsInFlight = {} /\ abInFlight = {}
  /\ recSent = 0 /\ searchSent = 0 /\ statsSent = 0 /\ abSent = 0
  /\ pollSent = 0
  /\ intervalSeq = 0
  /\ ticks = 0
  /\ intents = 0
  /\ lastOp = Op("init", <<>>)
  /\ selectedItem = <<>>
  /\ isModalOpen = FALSE
  /\ closeTimers = <<>>
  /\ eventInFlight = {} /\ eventSent = 0
  /\ notifications = <<>>
  /\ notifSeq = 0
  /\ removed = {}
  /\ clicks = 0

\* --------------------------------------------------- request construction
\* parameters that carry content_type even when no filter is set
RecParamsAlwaysType(u, f) == [user_id |-> u, n |-> RecN, content_type |-> f]

RecParams(u, f) ==
  IF f # "" THEN [user_id |-> u, n |-> RecN, content_type |-> f]
            ELSE [user_id |-> u, n |-> RecN]

\* parameters that leave user_id out when the user id is blank
SearchParamsTrimmedUser(q, st, u, f) ==
  LET base == [q |-> q, search_type |-> st, limit |-> SearchLimit]
      withUser == IF Trim(u) # <<>> THEN base @@ [user_id |-> u] ELSE base
  IN  IF f # "" THEN withUser @@ [content_type |-> f] ELSE withUser

SearchParams(q, st, u, f) ==
  LET base == [q |-> q, search_type |-> st, limit |-> SearchLimit]
      withUser == IF u # <<>> THEN base @@ [user_id |-> u] ELSE base
  IN  IF f # "" THEN withUser @@ [content_type |-> f] ELSE withUser

\* --------------------------------------------- the fetchers (dispatch half)
\* a fetchRecommendations that tests the user id without trimming it
fetchRecommendationsNoTrim(u, f) ==
  IF u = <<>>
  THEN UNCHANGED <<loading, error, recInFlight, recSent>>
  ELSE /\ loading' = TRUE
       /\ error' = Null
       /\ recSent' = recSent + 1
       /\ recInFlight' = recInFlight \cup
                           {[gen |-> recSent + 1, params |-> RecParams(u, f)]}

\* fetchRecommendations up to its await, with the closure's user and filter
fetchRecommendations(u, f) ==
  IF Trim(u) = <<>>
  THEN UNCHANGED <<loading, error, recInFlight, recSent>>
  ELSE /\ loading' = TRUE
       /\ error' = Null
       /\ recSent' = recSent + 1
       /\ recInFlight' = recInFlight \cup
                           {[gen |-> recSent + 1, params |-> RecParams(u, f)]}

\* a handleSearch that forgets setActiveTab('search')
handleSearchKeepsTab(query) ==
  IF Trim(query) = <<>>
  THEN UNCHANGED <<searchLoading, error, lastSearchQuery, activeTab,
                   searchInFlight, searchSent>>
  ELSE /\ searchLoading' = TRUE
       /\ error' = Null
       /\ lastSearchQuery' = query
       /\ activeTab' = activeTab
       /\ searchSent' = searchSent + 1
       /\ searchInFlight' = searchInFlight \cup
            {[gen |-> searchSent + 1,
              params |-> SearchParams(query, searchType, currentUser,
                                      contentTypeFilter)]}

\* App.handleSearch up to its await
handleSearch(query) ==
  IF Trim(query) = <<>>
  THEN UNCHANGED <<searchLoading, error, lastSearchQuery, activeTab,
                   searchInFlight, searchSent>>
  ELSE /\ searchLoading' = TRUE
       /\ error' = Null
       /\ lastSearchQuery' = query
       /\ activeTab' = "search"
       /\ searchSent' = searchSent + 1
       /\ searchInFlight' = searchInFlight \cup
            {[gen |-> searchSent + 1,
              params |-> SearchParams(query, searchType, currentUser,
                                      contentTypeFilter)]}

\* fetchStats up to its await; src tells the polling effect from a refresh
fetchStats(src) ==
  /\ statsSent' = statsSent + 1
  /\ statsInFlight' = statsInFlight \cup {[gen |-> statsSent + 1, src |-> src]}

\* a fetchAbTestInfo whose closure still holds the previous user
fetchAbTestInfoStaleUser(u) ==
  IF Trim(u) = <<>>
  THEN UNCHANGED <<abInFlight, abSent>>
  ELSE /\ abSent' = abSent + 1
       /\ abInFlight' = abInFlight \cup
                          {[gen |-> abSent + 1, user_id |-> currentUser]}

\* fetchAbTestInfo up to its await
fetchAbTestInfo(u) ==
  IF Trim(u) = <<>>
  THEN UNCHANGED <<abInFlight, abSent>>
  ELSE /\ abSent' = abSent + 1
       /\ abInFlight' = abInFlight \cup {[gen |-> abSent + 1, user_id |-> u]}

\* ------------------------------------------------------------------- mount
\* first render: both effects run
Mount ==
  /\ phase = "constructed"
  /\ phase' = "mounted"
  /\ fetchRecommendations(currentUser, contentTypeFilter)
  /\ fetchAbTestInfo(currentUser)
  /\ fetchStats("poll")
  /\ pollSent' = pollSent + 1
  /\ interval' = PollMs
  /\ intervalSeq' = intervalSeq + 1
  /\ lastOp' = Op("mount", <<>>)
  /\ UNCHANGED <<intents, emitVars>>
  /\ UNCHANGED <<currentUser, recommendations, searchResults, contentTypeFilter,
                 searchType, searchLoading, stats, abTestInfo, algorithm,
                 activeTab, lastSearchQuery, searchInFlight, searchSent,
                 ticks>>

\* ---------------------------------------------------------------- intents
\* the view is mounted and hands one more intent to the controller
Intent ==
  /\ phase = "mounted"
  /\ intents < MaxIntents
  /\ intents' = intents + 1
  /\ UNCHANGED emitVars

\* a user change that runs the polling effect again: a new interval timer
ChangeUserRestartsPolling(u) ==
  /\ Intent
  /\ lastOp' = Op("changeUser", u)
  /\ currentUser' = u
  /\ IF u # currentUser
     THEN /\ fetchRecommendations(u, contentTypeFilter)
          /\ fetchAbTestInfo(u)
          /\ intervalSeq' = intervalSeq + 1
     ELSE UNCHANGED <<loading, error, recInFlight, recSent, abInFlight, abSent,
                      intervalSeq>>
  /\ UNCHANGED <<phase, recommendations, searchResults, contentTypeFilter,
                 searchType, searchLoading, stats, abTestInfo, algorithm,
                 activeTab, lastSearchQuery, searchInFlight, searchSent,
                 statsInFlight, statsSent, interval, pollSent, ticks>>

\* Navigation input: onUserChange = setCurrentUser; a changed user re-creates
\* fetchRecommendations and fetchAbTestInfo, so the load effect runs again
ChangeUser(u) ==
  /\ Intent
  /\ lastOp' = Op("changeUser", u)
  /\ currentUser' = u
  /\ IF u # currentUser
     THEN /\ fetchRecommendations(u, contentTypeFilter)
          /\ fetchAbTestInfo(u)
     ELSE UNCHANGED <<loading, error, recInFlight, recSent, abInFlight, abSent>>
  /\ UNCHANGED <<phase, recommendations, searchResults, contentTypeFilter,
                 searchType, searchLoading, stats, abTestInfo, algorithm,
                 activeTab, lastSearchQuery, searchInFlight, searchSent,
                 statsInFlight, statsSent, pollVars>>

\* a load effect whose fetchRecommendations still holds the previous filter
setContentTypeFilterStale(f) ==
  /\ contentTypeFilter' = f
  /\ IF f # contentTypeFilter
     THEN /\ fetchRecommendations(currentUser, contentTypeFilter)
          /\ fetchAbTestInfo(currentUser)
     ELSE UNCHANGED <<loading, error, recInFlight, recSent, abInFlight, abSent>>
  /\ UNCHANGED <<phase, currentUser, recommendations, searchResults,
                 searchType, searchLoading, stats, abTestInfo, algorithm,
                 activeTab, lastSearchQuery, searchInFlight, searchSent,
                 statsInFlight, statsSent, pollVars>>

\* state change of contentTypeFilter followed by the load effect
setContentTypeFilter(f) ==
  /\ contentTypeFilter' = f
  /\ IF f # contentTypeFilter
     THEN /\ fetchRecommendations(currentUser, f)
          /\ fetchAbTestInfo(currentUser)
     ELSE UNCHANGED <<loading, error, recInFlight, recSent, abInFlight, abSent>>
  /\ UNCHANGED <<phase, currentUser, recommendations, searchResults,
                 searchType, searchLoading, stats, abTestInfo, algorithm,
                 activeTab, lastSearchQuery, searchInFlight, searchSent,
                 statsInFlight, statsSent, pollVars>>

\* SearchBar filter panel: onContentTypeChange(type.value)
ChangeFilter(f) ==
  /\ Intent
  /\ lastOp' = Op("changeFilter", <<f>>)
  /\ setContentTypeFilter(f)

\* the filter chip's clear button, rendered while a filter is set
ClearFilter ==
  /\ Intent
  /\ lastOp' = Op("clearFilter", <<>>)
  /\ contentTypeFilter # ""
  /\ setContentTypeFilter("")

\* SearchBar toggle: onSearchTypeChange = setSearchType
ChangeSearchType(st) ==
  /\ Intent
  /\ lastOp' = Op("changeSearchType", <<st>>)
  /\ searchType' = st
  /\ UNCHANGED <<phase, currentUser, recommendations, searchResults,
                 contentTypeFilter, loading, searchLoading, stats, abTestInfo,
                 algorithm, error, activeTab, lastSearchQuery, netVars,
                 pollVars>>

\* a tab switch that also drops the search results
ChangeTabClearsSearch(tab) ==
  /\ Intent
  /\ lastOp' = Op("changeTab", <<tab>>)
  /\ activeTab' = tab
  /\ searchResults' = <<>>
  /\ UNCHANGED <<phase, currentUser, recommendations, contentTypeFilter,
                 searchType, loading, searchLoading, stats, abTestInfo,
                 algorithm, error, lastSearchQuery, netVars, pollVars>>

\* a tab switch to search that also selects the video filter
ChangeTabSetsFilter(tab) ==
  /\ Intent
  /\ lastOp' = Op("changeTab", <<tab>>)
  /\ activeTab' = tab
  /\ contentTypeFilter' = IF tab = "search" THEN "video" ELSE contentTypeFilter
  /\ UNCHANGED <<phase, currentUser, recommendations, searchResults,
                 searchType, loading, searchLoading, stats, abTestInfo,
                 algorithm, error, lastSearchQuery, netVars, pollVars>>

\* tab buttons: setActiveTab(tab)
ChangeTab(tab) ==
  /\ Intent
  /\ lastOp' = Op("changeTab", <<tab>>)
  /\ activeTab' = tab
  /\ UNCHANGED <<phase, currentUser, recommendations, searchResults,
                 contentTypeFilter, searchType, loading, searchLoading, stats,
                 abTestInfo, algorithm, error, lastSearchQuery, netVars,
                 pollVars>>

\* SearchBar.handleSearch(raw): trims, then calls App.handleSearch
SubmitSearch(raw) ==
  /\ Intent
  /\ lastOp' = Op("submitSearch", raw)
  /\ IF Trim(raw) # <<>>
     THEN handleSearch(Trim(raw))
     ELSE UNCHANGED <<searchLoading, error, lastSearchQuery, activeTab,
                      searchInFlight, searchSent>>
  /\ UNCHANGED <<phase, currentUser, recommendations, searchResults,
                 contentTypeFilter, searchType, loading, stats, abTestInfo,
                 algorithm, recInFlight, recSent, statsInFlight, statsSent,
                 abInFlight, abSent, pollVars>>

currentResults == IF activeTab = "search" THEN searchResults ELSE recommendations
currentLoading == IF activeTab = "search" THEN searchLoading ELSE loading

\* the refresh buttons are disabled while currentLoading; the "Load More"
\* button is rendered whenever currentResults is non-empty
RefreshEnabled == ~currentLoading \/ currentResults # <<>>

\* a refresh that reloads stats and arm only on the recommendations tab
handleRefreshArmOnRecTab ==
  /\ IF activeTab = "recommendations"
     THEN /\ fetchRecommendations(currentUser, contentTypeFilter)
          /\ fetchAbTestInfo(currentUser)
          /\ UNCHANGED <<searchLoading, lastSearchQuery, activeTab,
                         searchInFlight, searchSent>>
     ELSE IF lastSearchQuery # <<>>
          THEN /\ handleSearch(lastSearchQuery)
               /\ UNCHANGED <<loading, recInFlight, recSent, abInFlight,
                              abSent>>
          ELSE UNCHANGED <<loading, error, recInFlight, recSent, searchLoading,
                           lastSearchQuery, activeTab, searchInFlight,
                           searchSent, abInFlight, abSent>>
  /\ fetchStats("refresh")

\* a refresh that reloads the recommendations whatever the tab
handleRefreshAlwaysRecommends ==
  /\ fetchRecommendations(currentUser, contentTypeFilter)
  /\ UNCHANGED <<searchLoading, lastSearchQuery, activeTab, searchInFlight,
                 searchSent>>
  /\ fetchStats("refresh")
  /\ fetchAbTestInfo(currentUser)

handleRefresh ==
  /\ IF activeTab = "recommendations"
     THEN /\ fetchRecommendations(currentUser, contentTypeFilter)
          /\ UNCHANGED <<searchLoading, lastSearchQuery, activeTab,
                         searchInFlight, searchSent>>
     ELSE IF lastSearchQuery # <<>>
          THEN /\ handleSearch(lastSearchQuery)
               /\ UNCHANGED <<loading, recInFlight, recSent>>
          ELSE UNCHANGED <<loading, error, recInFlight, recSent, searchLoading,
                           lastSearchQuery, activeTab, searchInFlight,
                           searchSent>>
  /\ fetchStats("refresh")
  /\ fetchAbTestInfo(currentUser)

Refresh ==
  /\ Intent
  /\ lastOp' = Op("refresh", <<activeTab>>)
  /\ RefreshEnabled
  /\ handleRefresh
  /\ UNCHANGED <<phase, currentUser, recommendations, searchResults,
                 contentTypeFilter, searchType, stats, abTestInfo, algorithm,
                 pollVars>>

\* ---------------------------------------------------------------- polling
\* the interval callback: fetchStats
Tick ==
  /\ interval # 0
  /\ ticks < MaxTicks
  /\ fetchStats("poll")
  /\ pollSent' = pollSent + 1
  /\ ticks' = ticks + 1
  /\ lastOp' = Op("tick", <<>>)
  /\ UNCHANGED <<intents, emitVars>>
  /\ UNCHANGED <<phase, viewVars, recInFlight, searchInFlight, abInFlight,
                 recSent, searchSent, abSent, interval, intervalSeq>>

\* a cleanup that leaves the timer running
clearPollingLeaks == interval' = interval

\* effect cleanup: clearInterval(interval)
clearPolling == interval' = 0

Unmount ==
  /\ phase = "mounted"
  /\ phase' = "unmounted"
  /\ clearPolling
  /\ lastOp' = Op("unmount", <<>>)
  /\ UNCHANGED <<intents, emitVars>>
  /\ UNCHANGED <<viewVars, netVars, intervalSeq, pollSent, ticks>>

\* -------------------------------------------------------------- responses
\* bodies the server may answer a request with
RecBodies(r) ==
  {[recommendations |-> [present |-> TRUE, v |-> <<r>>], algorithm |-> r.gen],
   [recommendations |-> [present |-> FALSE, v |-> <<>>], algorithm |-> r.gen]}

SearchBodies(r) ==
  {[results |-> [present |-> TRUE, v |-> <<r>>]],
   [results |-> [present |-> FALSE, v |-> <<>>]]}

\* a state setter called after the component unmounted is ignored
Live == phase = "mounted"

\* fetchRecommendations after its await: try branch, then finally
applyRecommendations(r, body) ==
  /\ recommendations' = OrEmpty(body.recommendations)
  /\ algorithm' = body.algorithm
  /\ loading' = FALSE

RecOk(r, body) ==
  /\ r \in recInFlight
  /\ recInFlight' = recInFlight \ {r}
  /\ IF Live THEN applyRecommendations(r, body)
             ELSE UNCHANGED <<recommendations, algorithm, loading>>
  /\ UNCHANGED <<intents, lastOp, emitVars>>
  /\ UNCHANGED <<phase, currentUser, searchResults, contentTypeFilter,
                 searchType, searchLoading, stats, abTestInfo, error,
                 activeTab, lastSearchQuery, searchInFlight, statsInFlight,
                 abInFlight, recSent, searchSent, statsSent, abSent, pollVars>>

\* a catch branch that forgets setRecommendations([])
failRecommendationsKeepsList ==
  /\ error' = RecErrMsg
  /\ recommendations' = recommendations
  /\ loading' = FALSE

\* fetchRecommendations after its await: catch branch, then finally
failRecommendations ==
  /\ error' = RecErrMsg
  /\ recommendations' = <<>>
  /\ loading' = FALSE

\* a failure that never reaches finally: the flag stays raised
RecFailStillLoading(r) ==
  /\ r \in recInFlight
  /\ recInFlight' = recInFlight \ {r}
  /\ IF Live THEN error' = RecErrMsg /\ recommendations' = <<>>
             ELSE UNCHANGED <<error, recommendations>>
  /\ UNCHANGED loading
  /\ UNCHANGED <<intents, lastOp, emitVars>>
  /\ UNCHANGED <<phase, currentUser, searchResults, contentTypeFilter,
                 searchType, searchLoading, stats, abTestInfo, algorithm,
                 activeTab, lastSearchQuery, searchInFlight, statsInFlight,
                 abInFlight, recSent, searchSent, statsSent, abSent, pollVars>>

RecFail(r) ==
  /\ r \in recInFlight
  /\ recInFlight' = recInFlight \ {r}
  /\ IF Live THEN failRecommendations
             ELSE UNCHANGED <<error, recommendations, loading>>
  /\ UNCHANGED <<intents, lastOp, emitVars>>
  /\ UNCHANGED <<phase, currentUser, searchResults, contentTypeFilter,
                 searchType, searchLoading, stats, abTestInfo, algorithm,
                 activeTab, lastSearchQuery, searchInFlight, statsInFlight,
                 abInFlight, recSent, searchSent, statsSent, abSent, pollVars>>

\* handleSearch after its await: try branch, then finally
applySearch(r, body) ==
  /\ searchResults' = OrEmpty(body.results)
  /\ searchLoading' = FALSE

SearchOk(r, body) ==
  /\ r \in searchInFlight
  /\ searchInFlight' = searchInFlight \ {r}
  /\ IF Live THEN applySearch(r, body)
             ELSE UNCHANGED <<searchResults, searchLoading>>
  /\ UNCHANGED <<intents, lastOp, emitVars>>
  /\ UNCHANGED <<phase, currentUser, recommendations, contentTypeFilter,
                 searchType, loading, stats, abTestInfo, algorithm, error,
                 activeTab, lastSearchQuery, recInFlight, statsInFlight,
                 abInFlight, recSent, searchSent, statsSent, abSent, pollVars>>

\* a catch branch with no finally: the search flag stays raised
failSearchStillLoading ==
  /\ error' = SearchErrMsg
  /\ searchResults' = <<>>
  /\ searchLoading' = searchLoading

\* handleSearch after its await: catch branch, then finally
failSearch ==
  /\ error' = SearchErrMsg
  /\ searchResults' = <<>>
  /\ searchLoading' = FALSE

SearchFail(r) ==
  /\ r \in searchInFlight
  /\ searchInFlight' = searchInFlight \ {r}
  /\ IF Live THEN failSearch
             ELSE UNCHANGED <<error, searchResults, searchLoading>>
  /\ UNCHANGED <<intents, lastOp, emitVars>>
  /\ UNCHANGED <<phase, currentUser, recommendations, contentTypeFilter,
                 searchType, loading, stats, abTestInfo, algorithm,
                 activeTab, lastSearchQuery, recInFlight, statsInFlight,
                 abInFlight, recSent, searchSent, statsSent, abSent, pollVars>>

\* fetchStats after its await: setStats(response.data.statistics)
StatsOk(r) ==
  /\ r \in statsInFlight
  /\ statsInFlight' = statsInFlight \ {r}
  /\ stats' = IF Live THEN r.gen ELSE stats
  /\ UNCHANGED <<intents, lastOp, emitVars>>
  /\ UNCHANGED <<phase, currentUser, recommendations, searchResults,
                 contentTypeFilter, searchType, loading, searchLoading,
                 abTestInfo, algorithm, error, activeTab, lastSearchQuery,
                 recInFlight, searchInFlight, abInFlight, recSent, searchSent,
                 statsSent, abSent, pollVars>>

\* a catch branch that drops the snapshot on display
StatsFailClears(r) ==
  /\ r \in statsInFlight
  /\ statsInFlight' = statsInFlight \ {r}
  /\ stats' = 0
  /\ UNCHANGED <<intents, lastOp, emitVars>>
  /\ UNCHANGED <<phase, currentUser, recommendations, searchResults,
                 contentTypeFilter, searchType, loading, searchLoading,
                 abTestInfo, algorithm, error, activeTab, lastSearchQuery,
                 recInFlight, searchInFlight, abInFlight, recSent, searchSent,
                 statsSent, abSent, pollVars>>

\* fetchStats after its await: the catch branch only logs
StatsFail(r) ==
  /\ r \in statsInFlight
  /\ statsInFlight' = statsInFlight \ {r}
  /\ UNCHANGED <<intents, lastOp, emitVars>>
  /\ UNCHANGED <<phase, viewVars, recInFlight, searchInFlight, abInFlight,
                 recSent, searchSent, statsSent, abSent, pollVars>>

\* fetchAbTestInfo after its await: setAbTestInfo(response.data)
AbOk(r) ==
  /\ r \in abInFlight
  /\ abInFlight' = abInFlight \ {r}
  /\ abTestInfo' = IF Live THEN r ELSE abTestInfo
  /\ UNCHANGED <<intents, lastOp, emitVars>>
  /\ UNCHANGED <<phase, currentUser, recommendations, searchResults,
                 contentTypeFilter, searchType, loading, searchLoading,
                 stats, algorithm, error, activeTab, lastSearchQuery,
                 recInFlight, searchInFlight, statsInFlight, recSent,
                 searchSent, statsSent, abSent, pollVars>>

\* fetchAbTestInfo after its await: the catch branch only logs
AbFail(r) ==
  /\ r \in abInFlight
  /\ abInFlight' = abInFlight \ {r}
  /\ UNCHANGED <<intents, lastOp, emitVars>>
  /\ UNCHANGED <<phase, viewVars, recInFlight, searchInFlight, statsInFlight,
                 recSent, searchSent, statsSent, abSent, pollVars>>

\* ------------------------------------------------------ interaction events
\* Math.random() is rnd / RandDen for a sample rnd
RandDen == 1000
RandomSamples == {0, RandDen - 1}

\* a duration rounded to the nearest second instead of floored
ViewDurationRounds(rnd, span, base) ==
  ((rnd * span + RandDen \div 2) \div RandDen) + base

\* Math.floor(Math.random() * span) + base
ViewDuration(rnd, span, base) == ((rnd * span) \div RandDen) + base

\* the action types the card and the modal buttons are exercised with
QuickActions == {"like", "view"}
ModalActions == {"view", "bookmark"}
NoTimer == -1

\* context.view_duration || 0
DwellSeconds(context) ==
  IF "view_duration" \in DOMAIN context /\ context.view_duration # 0
  THEN context.view_duration
  ELSE 0

\* an eventData that carries a fixed user id instead of the current one
EventDataDemoUser(itemId, interactionType, context) ==
  [user_id |-> DemoUser,
   item_id |-> itemId,
   type |-> interactionType,
   dwell_seconds |-> DwellSeconds(context),
   context |-> context]

EventData(itemId, interactionType, context) ==
  [user_id |-> currentUser,
   item_id |-> itemId,
   type |-> interactionType,
   dwell_seconds |-> DwellSeconds(context),
   context |-> context]

\* a logInteraction that drops an event equal to one still in flight
logInteractionDedupes(itemId, interactionType, context) ==
  IF \E e \in eventInFlight :
       e.data = EventData(itemId, interactionType, context)
  THEN UNCHANGED <<eventSent, eventInFlight>>
  ELSE /\ eventSent' = eventSent + 1
       /\ eventInFlight' = eventInFlight \cup
            {[gen |-> eventSent + 1,
              data |-> EventData(itemId, interactionType, context)]}

\* logInteraction up to its await
logInteraction(itemId, interactionType, context) ==
  /\ eventSent' = eventSent + 1
  /\ eventInFlight' = eventInFlight \cup
       {[gen |-> eventSent + 1,
         data |-> EventData(itemId, interactionType, context)]}

handleItemClick(item) ==
  /\ selectedItem' = <<item>>
  /\ isModalOpen' = TRUE

\* the view is mounted and handles one more card or modal gesture
Gesture ==
  /\ phase = "mounted"
  /\ clicks' = clicks + 1
  /\ UNCHANGED <<phase, viewVars, netVars, pollVars, intents>>

\* the cards are rendered only when the active tab is not loading
CardsShown == ~currentLoading /\ currentResults # <<>>

\* ItemModal renders only when isOpen and item are both set
ModalShown == isModalOpen /\ selectedItem # <<>>

\* RecommendationCard.handleClick; the open modal's backdrop covers the cards
ClickCard(i) ==
  /\ Gesture
  /\ CardsShown
  /\ ~ModalShown
  /\ i \in DOMAIN currentResults
  /\ logInteraction(currentResults[i], "click",
                    [source |-> "recommendation_card"])
  /\ handleItemClick(currentResults[i])
  /\ lastOp' = Op("itemClick", <<"click">>)
  /\ UNCHANGED <<closeTimers, notifications, notifSeq, removed>>

\* the context of a card or modal button; the item's title and content type,
\* which the model's items do not carry, are left out
ActionContext(source, action, duration) ==
  IF action = "view"
  THEN [source |-> source, action |-> action, view_duration |-> duration]
  ELSE [source |-> source, action |-> action]

\* RecommendationCard.handleQuickAction
QuickAction(i, action, rnd) ==
  /\ Gesture
  /\ CardsShown
  /\ i \in DOMAIN currentResults
  /\ logInteraction(currentResults[i], action,
       ActionContext("quick_action", action,
                     ViewDuration(rnd, CardViewSpan, CardViewBase)))
  /\ lastOp' = Op("quickAction", <<action>>)
  /\ UNCHANGED <<selectedItem, isModalOpen, closeTimers, notifications,
                 notifSeq, removed>>

\* ItemModal.handleAction
ModalAction(action, rnd) ==
  /\ Gesture
  /\ ModalShown
  /\ logInteraction(selectedItem[1], action,
       ActionContext("modal", action,
                     ViewDuration(rnd, ModalViewSpan, ModalViewBase)))
  /\ closeTimers' = IF action \in {"purchase", "bookmark"}
                    THEN Append(closeTimers, CloseDelayMs)
                    ELSE closeTimers
  /\ lastOp' = Op("modalAction", <<action>>)
  /\ UNCHANGED <<selectedItem, isModalOpen, notifications, notifSeq, removed>>

\* onClose from the backdrop or the close button
CloseModal ==
  /\ Gesture
  /\ ModalShown
  /\ isModalOpen' = FALSE
  /\ lastOp' = Op("closeModal", <<>>)
  /\ UNCHANGED <<selectedItem, closeTimers, eventInFlight, eventSent,
                 notifications, notifSeq, removed>>

\* the delayed onClose of handleAction
CloseTimerFires ==
  /\ closeTimers # <<>>
  /\ Head(closeTimers) = 0
  /\ closeTimers' = Tail(closeTimers)
  /\ isModalOpen' = IF Live THEN FALSE ELSE isModalOpen
  /\ UNCHANGED <<phase, viewVars, netVars, pollVars, intents, lastOp,
                 selectedItem, eventInFlight, eventSent, notifications,
                 notifSeq, removed, clicks>>

\* ------------------------------------------------------------ notifications
\* a notification node as appended: off screen, its two timers armed
NewNotification(message, type) ==
  [id |-> notifSeq + 1, type |-> type, message |-> message,
   offscreen |-> TRUE, inTimer |-> AnimateInMs, hideTimer |-> VisibleMs,
   removeTimer |-> NoTimer, age |-> 0]

\* a showNotification that re-arms the hide timeout of the nodes on display
showNotificationRestarts(message, type) ==
  /\ notifSeq' = notifSeq + 1
  /\ notifications' =
       Append([i \in DOMAIN notifications |->
                 IF notifications[i].hideTimer # NoTimer
                 THEN [notifications[i] EXCEPT !.hideTimer = VisibleMs]
                 ELSE notifications[i]],
              NewNotification(message, type))

\* showNotification: writes document.body, not the component's state
showNotification(message, type) ==
  /\ notifSeq' = notifSeq + 1
  /\ notifications' = Append(notifications, NewNotification(message, type))

\* logInteraction after its await: try branch
EventOk(r) ==
  /\ r \in eventInFlight
  /\ eventInFlight' = eventInFlight \ {r}
  /\ showNotification(<<r.data.type, "recorded">>, "success")
  /\ UNCHANGED <<phase, viewVars, netVars, pollVars, intents, lastOp,
                 selectedItem, isModalOpen, closeTimers, eventSent, removed,
                 clicks>>

\* a catch branch that also raises the error banner
EventFailSetsBanner(r) ==
  /\ r \in eventInFlight
  /\ eventInFlight' = eventInFlight \ {r}
  /\ showNotification(<<"Error logging interaction">>, "error")
  /\ error' = "Error logging interaction"
  /\ UNCHANGED <<phase, currentUser, recommendations, searchResults,
                 contentTypeFilter, searchType, loading, searchLoading, stats,
                 abTestInfo, algorithm, activeTab, lastSearchQuery, netVars,
                 pollVars, intents, lastOp, selectedItem, isModalOpen,
                 closeTimers, eventSent, removed, clicks>>

\* a catch branch that posts the event again instead of giving up
EventFailRetries(r) ==
  /\ r \in eventInFlight
  /\ eventSent' = eventSent + 1
  /\ eventInFlight' = (eventInFlight \ {r}) \cup
                         {[gen |-> eventSent + 1, data |-> r.data]}
  /\ UNCHANGED <<phase, viewVars, netVars, pollVars, intents, lastOp,
                 selectedItem, isModalOpen, closeTimers, notifications,
                 notifSeq, removed, clicks>>

\* logInteraction after its await: catch branch
EventFail(r) ==
  /\ r \in eventInFlight
  /\ eventInFlight' = eventInFlight \ {r}
  /\ showNotification(<<"Error logging interaction">>, "error")
  /\ UNCHANGED <<phase, viewVars, netVars, pollVars, intents, lastOp,
                 selectedItem, isModalOpen, closeTimers, eventSent, removed,
                 clicks>>

\* what a timer step of a notification leaves alone
NotifyFrame ==
  UNCHANGED <<phase, viewVars, netVars, pollVars, intents, lastOp,
              selectedItem, isModalOpen, closeTimers, eventInFlight, eventSent,
              notifSeq, clicks>>

\* timeouts of one delay run in the order they were armed: the nodes ahead
\* of node i have no due timeout of the kind
FirstDue(i, timer) ==
  \A j \in 1..(i - 1) : notifications[j][timer] # 0

\* the 100 ms timer: slide in
NotifyAnimateIn(i) ==
  /\ i \in DOMAIN notifications
  /\ notifications[i].inTimer = 0
  /\ FirstDue(i, "inTimer")
  /\ notifications' = [notifications EXCEPT ![i].offscreen = FALSE,
                                            ![i].inTimer = NoTimer]
  /\ UNCHANGED removed
  /\ NotifyFrame

\* the 3000 ms timer: slide out and arm the removal
NotifyHide(i) ==
  /\ i \in DOMAIN notifications
  /\ notifications[i].hideTimer = 0
  /\ FirstDue(i, "hideTimer")
  /\ notifications' = [notifications EXCEPT ![i].offscreen = TRUE,
                                            ![i].hideTimer = NoTimer,
                                            ![i].removeTimer = ExitMs]
  /\ UNCHANGED removed
  /\ NotifyFrame

\* the sequence without its i-th element
RemoveAt(seq, i) == SubSeq(seq, 1, i - 1) \o SubSeq(seq, i + 1, Len(seq))

\* a removal that leaves the node in document.body
removeChildKeeps(i) == notifications' = [notifications EXCEPT ![i].removeTimer = NoTimer]

\* document.body.removeChild(notification)
removeChild(i) == notifications' = RemoveAt(notifications, i)

\* the 300 ms timer: take the node out of document.body
NotifyRemove(i) ==
  /\ i \in DOMAIN notifications
  /\ notifications[i].removeTimer = 0
  /\ FirstDue(i, "removeTimer")
  /\ removeChild(i)
  /\ removed' = removed \cup {[id |-> notifications[i].id,
                               age |-> notifications[i].age]}
  /\ NotifyFrame

\* ---------------------------------------------------------------- time
\* the remaining delays of every armed timeout
PendingDelays ==
  UNION {{notifications[i].inTimer, notifications[i].hideTimer,
          notifications[i].removeTimer} \ {NoTimer} : i \in DOMAIN notifications}
    \cup {closeTimers[i] : i \in DOMAIN closeTimers}

MinOf(S) == CHOOSE x \in S : \A y \in S : x <= y

Elapse(t, d) == IF t = NoTimer THEN NoTimer ELSE t - d

\* time passes until the next timeout is due; a due timeout runs first
AdvanceTime ==
  /\ PendingDelays # {}
  /\ MinOf(PendingDelays) > 0
  /\ LET d == MinOf(PendingDelays) IN
       /\ notifications' =
            [i \in DOMAIN notifications |->
               [notifications[i] EXCEPT !.inTimer = Elapse(@, d),
                                        !.hideTimer = Elapse(@, d),
                                        !.removeTimer = Elapse(@, d),
                                        !.age = @ + d]]
       /\ closeTimers' = [i \in DOMAIN closeTimers |-> closeTimers[i] - d]
  /\ UNCHANGED <<phase, viewVars, netVars, pollVars, intents, lastOp,
                 selectedItem, isModalOpen, eventInFlight, eventSent, notifSeq,
                 removed, clicks>>

\* ----------------------------------------------------------- specification
\* the mounted view: intents and responses in any order
Next ==
  \/ Mount
  \/ \E u \in UserIds : ChangeUser(u)
  \/ \E f \in ContentTypes : ChangeFilter(f)
  \/ ClearFilter
  \/ \E st \in SearchTypes : ChangeSearchType(st)
  \/ \E tab \in Tabs : ChangeTab(tab)
  \/ \E raw \in RawQueries : SubmitSearch(raw)
  \/ Refresh
  \/ \E r \in recInFlight : \E body \in RecBodies(r) : RecOk(r, body)
  \/ \E r \in recInFlight : RecFail(r)
  \/ \E r \in searchInFlight : \E body \in SearchBodies(r) : SearchOk(r, body)
  \/ \E r \in searchInFlight : SearchFail(r)
  \/ \E r \in statsInFlight : StatsOk(r)
  \/ \E r \in statsInFlight : StatsFail(r)
  \/ \E r \in abInFlight : AbOk(r)
  \/ \E r \in abInFlight : AbFail(r)

Spec == Init /\ [][Next]_vars

\* the whole life of the view: mount, polling ticks, intents, teardown
NextLife ==
  \/ Mount
  \/ Tick
  \/ Unmount
  \/ intents < MaxLifeIntents /\ \E u \in UserIds : ChangeUser(u)
  \/ intents < MaxLifeIntents /\ \E f \in ContentTypes : ChangeFilter(f)
  \/ intents < MaxLifeIntents /\ \E st \in SearchTypes : ChangeSearchType(st)
  \/ intents < MaxLifeIntents /\ \E tab \in Tabs : ChangeTab(tab)
  \/ intents < MaxLifeIntents /\ \E raw \in RawQueries : SubmitSearch(raw)
  \/ intents < MaxLifeIntents /\ Refresh
  \/ \E r \in recInFlight : \E body \in RecBodies(r) : RecOk(r, body)
  \/ \E r \in recInFlight : RecFail(r)
  \/ \E r \in searchInFlight : \E body \in SearchBodies(r) : SearchOk(r, body)
  \/ \E r \in searchInFlight : SearchFail(r)
  \/ \E r \in statsInFlight : StatsOk(r)
  \/ \E r \in statsInFlight : StatsFail(r)
  \/ \E r \in abInFlight : AbOk(r)
  \/ \E r \in abInFlight : AbFail(r)

SpecLife == Init /\ [][NextLife]_vars

\* cards, modal, interaction events and notifications, with time
NextEmit ==
  \/ Mount
  \/ clicks + intents < MaxGestures /\ \E u \in UserIds : ChangeUser(u)
  \/ clicks + intents < MaxGestures /\ \E raw \in RawQueries : SubmitSearch(raw)
  \/ clicks + intents < MaxGestures
       /\ \E i \in DOMAIN currentResults : ClickCard(i)
  \/ clicks + intents < MaxGestures
       /\ \E i \in DOMAIN currentResults : \E a \in QuickActions :
            \E rnd \in RandomSamples : QuickAction(i, a, rnd)
  \/ clicks + intents < MaxGestures
       /\ \E a \in ModalActions : \E rnd \in RandomSamples : ModalAction(a, rnd)
  \/ clicks + intents < MaxGestures /\ CloseModal
  \/ CloseTimerFires
  \/ \E r \in eventInFlight : EventOk(r)
  \/ \E r \in eventInFlight : EventFail(r)
  \/ \E i \in DOMAIN notifications : NotifyAnimateIn(i)
  \/ \E i \in DOMAIN notifications : NotifyHide(i)
  \/ \E i \in DOMAIN notifications : NotifyRemove(i)
  \/ AdvanceTime
  \/ \E r \in recInFlight : \E body \in RecBodies(r) : RecOk(r, body)
  \/ \E r \in recInFlight : RecFail(r)
  \/ \E r \in searchInFlight : \E body \in SearchBodies(r) : SearchOk(r, body)
  \/ \E r \in searchInFlight : SearchFail(r)
  \/ \E r \in statsInFlight : StatsOk(r)
  \/ \E r \in statsInFlight : StatsFail(r)
  \/ \E r \in abInFlight : AbOk(r)
  \/ \E r \in abInFlight : AbFail(r)

SpecEmit == Init /\ [][NextEmit]_vars

\* every stimulus of the page and every callback, the modal apart
Room == clicks + intents + ticks < MaxAllSteps

NextAll ==
  \/ Mount
  \/ Room /\ Tick
  \/ Unmount
  \/ Room /\ \E u \in UserIds : ChangeUser(u)
  \/ Room /\ \E f \in ContentTypes : ChangeFilter(f)
  \/ Room /\ \E st \in SearchTypes : ChangeSearchType(st)
  \/ Room /\ \E tab \in Tabs : ChangeTab(tab)
  \/ Room /\ \E raw \in RawQueries : SubmitSearch(raw)
  \/ Room /\ Refresh
  \/ Room /\ \E i \in DOMAIN currentResults : ClickCard(i)
  \/ Room /\ \E i \in DOMAIN currentResults : \E a \in QuickActions :
               \E rnd \in RandomSamples : QuickAction(i, a, rnd)
  \/ \E r \in eventInFlight : EventOk(r)
  \/ \E r \in eventInFlight : EventFail(r)
  \/ \E i \in DOMAIN notifications : NotifyAnimateIn(i)
  \/ \E i \in DOMAIN notifications : NotifyHide(i)
  \/ \E i \in DOMAIN notifications : NotifyRemove(i)
  \/ AdvanceTime
  \/ \E r \in recInFlight : \E body \in RecBodies(r) : RecOk(r, body)
  \/ \E r \in recInFlight : RecFail(r)
  \/ \E r \in searchInFlight : \E body \in SearchBodies(r) : SearchOk(r, body)
  \/ \E r \in searchInFlight : SearchFail(r)
  \/ \E r \in statsInFlight : StatsOk(r)
  \/ \E r \in statsInFlight : StatsFail(r)
  \/ \E r \in abInFlight : AbOk(r)
  \/ \E r \in abInFlight : AbFail(r)

SpecAll == Init /\ [][NextAll]_vars

\* the modal: item clicks, modal buttons, closing, the delayed close; the
\* POSTs of the gestures stay unanswered
NextModal ==
  \/ Mount
  \/ \E r \in recInFlight : \E body \in RecBodies(r) : RecOk(r, body)
  \/ \E r \in recInFlight : RecFail(r)
  \/ clicks < MaxModalGestures
       /\ \E i \in DOMAIN currentResults : ClickCard(i)
  \/ clicks < MaxModalGestures
       /\ \E a \in ModalActions : \E rnd \in RandomSamples : ModalAction(a, rnd)
  \/ clicks < MaxModalGestures /\ CloseModal
  \/ CloseTimerFires
  \/ AdvanceTime

SpecModal == Init /\ [][NextModal]_vars

\* ------------------------------------------------------------------ claims
\* "empty after trimming", stated without Trim: nothing but white space
IsBlank(s) == \A i \in 1..Len(s) : s[i] = " "

\* the step handles the intent called name
IntentStep(name) == intents' = intents + 1 /\ lastOp'.op = name

\* the step settles request r of its kind
RecSettles(r) == (\E body \in RecBodies(r) : RecOk(r, body)) \/ RecFail(r)
SearchSettles(r) ==
  (\E body \in SearchBodies(r) : SearchOk(r, body)) \/ SearchFail(r)

\* the requests the step dispatches
NewRec == recInFlight' \ recInFlight
NewSearch == searchInFlight' \ searchInFlight
NewStats == statsInFlight' \ statsInFlight
NewAb == abInFlight' \ abInFlight
NoDispatch == UNCHANGED netVars

\* C1: of two overlapping fetches of one kind, the response of the one
\* dispatched earlier changes neither the result list nor the algorithm tag.
C1_OnlyLatestResponseApplies ==
  [][ /\ \A r \in recInFlight :
          (Live /\ r.gen < recSent /\ RecSettles(r))
             => UNCHANGED <<recommendations, algorithm>>
      /\ \A r \in searchInFlight :
          (Live /\ r.gen < searchSent /\ SearchSettles(r))
             => UNCHANGED searchResults ]_vars

\* C2: a failed recommendations fetch empties recommendations, sets the
\* error message and leaves searchResults, stats and abTestInfo alone; a
\* failed search does the same with the roles of the two lists exchanged.
C2_FailureIsolated ==
  [][ /\ \A r \in recInFlight :
          (Live /\ RecFail(r))
             => /\ recommendations' = <<>>
                /\ error' = RecErrMsg
                /\ UNCHANGED <<searchResults, stats, abTestInfo>>
      /\ \A r \in searchInFlight :
          (Live /\ SearchFail(r))
             => /\ searchResults' = <<>>
                /\ error' = SearchErrMsg
                /\ UNCHANGED <<recommendations, stats, abTestInfo>> ]_vars

\* a recommendations failure with search results, stats and arm on display
C2_Witness ==
  /\ error = RecErrMsg
  /\ recommendations = <<>>
  /\ searchResults # <<>>
  /\ stats # 0
  /\ abTestInfo # NoAb

\* C3: submitting a query that is blank dispatches nothing and leaves
\* activeTab, lastSearchQuery, searchLoading, error and searchResults alone.
C3_BlankSearchIsNoOp ==
  [][ (IntentStep("submitSearch") /\ IsBlank(lastOp'.arg))
        => /\ NoDispatch
           /\ UNCHANGED <<activeTab, lastSearchQuery, searchLoading, error,
                          searchResults>> ]_vars

\* a blank query submitted after a real one: still one search dispatched
C3_Witness ==
  /\ lastOp.op = "submitSearch"
  /\ IsBlank(lastOp.arg)
  /\ lastSearchQuery # <<>>
  /\ searchSent = 1

\* C4: submitting a non-blank query selects the search tab, stores the query
\* as lastSearchQuery and dispatches exactly one search request for it.
C4_SearchSubmitDispatchesOne ==
  [][ (IntentStep("submitSearch") /\ ~IsBlank(lastOp'.arg))
        => /\ activeTab' = "search"
           /\ lastSearchQuery' = Trim(lastOp'.arg)
           /\ searchSent' = searchSent + 1
           /\ Cardinality(NewSearch) = 1
           /\ searchInFlight \subseteq searchInFlight'
           /\ \A r \in NewSearch : r.params.q = lastSearchQuery'
           /\ UNCHANGED <<recInFlight, statsInFlight, abInFlight,
                          recSent, statsSent, abSent>> ]_vars

\* a query submitted from the recommendations tab, its request in flight
C4_Witness ==
  /\ lastOp = Op("submitSearch", <<" ", "q2", " ">>)
  /\ intents = 1
  /\ activeTab = "search"
  /\ lastSearchQuery = <<"q2">>
  /\ \E r \in searchInFlight : r.params.q = <<"q2">>

\* C5: a tab switch changes activeTab and nothing else: no request, and
\* both result lists, lastSearchQuery, algorithm and error stay as they were.
C5_ChangeTabOnlyChangesTab ==
  [][ IntentStep("changeTab")
        => /\ activeTab' = lastOp'.arg[1]
           /\ NoDispatch
           /\ UNCHANGED <<recommendations, searchResults, lastSearchQuery,
                          algorithm, error, currentUser, contentTypeFilter,
                          searchType, loading, searchLoading, stats,
                          abTestInfo>> ]_vars

\* back on the recommendations tab after a search, both lists still loaded
C5_Witness ==
  /\ lastOp = Op("changeTab", <<"recommendations">>)
  /\ activeTab = "recommendations"
  /\ recommendations # <<>>
  /\ searchResults # <<>>

\* C6 as claimed: every refresh dispatches one stats and one abArm request.
C6_RefreshAlwaysStatsAndArm ==
  [][ IntentStep("refresh")
        => /\ statsSent' = statsSent + 1
           /\ abSent' = abSent + 1 ]_vars

\* C6 amended: every refresh dispatches one stats request, whichever tab is
\* active, and one abArm request for the current user unless the user id is
\* blank, in which case it dispatches no abArm request.
C6_RefreshStatsAndArmUnlessBlankUser ==
  [][ IntentStep("refresh")
        => /\ statsSent' = statsSent + 1
           /\ Cardinality(NewStats) = 1
           /\ statsInFlight \subseteq statsInFlight'
           /\ IF IsBlank(currentUser)
              THEN UNCHANGED <<abSent, abInFlight>>
              ELSE /\ abSent' = abSent + 1
                   /\ Cardinality(NewAb) = 1
                   /\ abInFlight \subseteq abInFlight'
                   /\ \A r \in NewAb : r.user_id = currentUser ]_vars

\* a refresh on the search tab with nothing to search for: stats and arm go out
C6_Witness ==
  /\ lastOp = Op("refresh", <<"search">>)
  /\ lastSearchQuery = <<>>
  /\ searchSent = 0
  /\ \E r \in statsInFlight : r.src = "refresh"
  /\ \E r \in abInFlight : r.gen = 2

\* C7 as claimed: a refresh on the recommendations tab dispatches one
\* recommendations request and no search; on the search tab it dispatches
\* one search for lastSearchQuery if there is one, and never recommendations.
C7_RefreshActiveTabOnly ==
  [][ IntentStep("refresh")
        => IF activeTab = "recommendations"
           THEN /\ recSent' = recSent + 1
                /\ UNCHANGED <<searchSent, searchInFlight>>
           ELSE /\ UNCHANGED <<recSent, recInFlight>>
                /\ IF lastSearchQuery # <<>>
                   THEN /\ searchSent' = searchSent + 1
                        /\ \A r \in NewSearch : r.params.q = lastSearchQuery
                   ELSE UNCHANGED <<searchSent, searchInFlight>> ]_vars

\* C7 amended: as claimed, except that on the recommendations tab the
\* recommendations request is dispatched only if the user id is not blank.
C7_RefreshActiveTabUnlessBlankUser ==
  [][ IntentStep("refresh")
        => IF activeTab = "recommendations"
           THEN /\ UNCHANGED <<searchSent, searchInFlight>>
                /\ IF IsBlank(currentUser)
                   THEN UNCHANGED <<recSent, recInFlight>>
                   ELSE /\ recSent' = recSent + 1
                        /\ Cardinality(NewRec) = 1
                        /\ recInFlight \subseteq recInFlight'
                        /\ \A r \in NewRec : r.params.user_id = currentUser
           ELSE /\ UNCHANGED <<recSent, recInFlight>>
                /\ IF lastSearchQuery # <<>>
                   THEN /\ searchSent' = searchSent + 1
                        /\ Cardinality(NewSearch) = 1
                        /\ searchInFlight \subseteq searchInFlight'
                        /\ \A r \in NewSearch : r.params.q = lastSearchQuery
                   ELSE UNCHANGED <<searchSent, searchInFlight>> ]_vars

\* a refresh on the search tab re-ran the last search and no recommendations
C7_Witness ==
  /\ lastOp = Op("refresh", <<"search">>)
  /\ lastSearchQuery # <<>>
  /\ searchSent = 2
  /\ recSent = 1
  /\ \E r \in searchInFlight : r.gen = 2 /\ r.params.q = lastSearchQuery

\* the step is a filter edit: the filter panel or the chip's clear button
FilterStep == IntentStep("changeFilter") \/ IntentStep("clearFilter")

\* C8 as claimed: a filter change updates contentTypeFilter and dispatches
\* no request.
C8_FilterChangeDispatchesNothing ==
  [][ FilterStep => NoDispatch ]_vars

\* C8 amended: a filter change updates contentTypeFilter and dispatches no
\* search and no stats request; when the value really changes and the user id
\* is not blank, the load effect dispatches one recommendations request with
\* the new filter and one abArm request; otherwise it dispatches nothing.
C8_FilterChangeReloads ==
  [][ FilterStep
        => /\ contentTypeFilter' =
                 (IF lastOp'.op = "clearFilter" THEN "" ELSE lastOp'.arg[1])
           /\ UNCHANGED <<searchSent, searchInFlight, statsSent, statsInFlight>>
           /\ IF contentTypeFilter' # contentTypeFilter /\ ~IsBlank(currentUser)
              THEN /\ recSent' = recSent + 1
                   /\ Cardinality(NewRec) = 1
                   /\ \A r \in NewRec :
                        IF contentTypeFilter' = ""
                        THEN DOMAIN r.params = {"user_id", "n"}
                        ELSE /\ DOMAIN r.params = {"user_id", "n", "content_type"}
                             /\ r.params.content_type = contentTypeFilter'
                   /\ abSent' = abSent + 1
                   /\ Cardinality(NewAb) = 1
              ELSE UNCHANGED <<recSent, recInFlight, abSent, abInFlight>> ]_vars

\* the filter was set to video and the reload it caused is in flight
C8_Witness ==
  /\ lastOp = Op("changeFilter", <<"video">>)
  /\ contentTypeFilter = "video"
  /\ \E r \in recInFlight :
       /\ r.gen = 2
       /\ "content_type" \in DOMAIN r.params
       /\ r.params.content_type = "video"
  /\ \E r \in abInFlight : r.gen = 2

C10_PollingLifetime ==
  [][ /\ (lastOp'.op = "mount" /\ lastOp.op = "init")
          => /\ statsSent' = statsSent + 1
             /\ NewStats = {[gen |-> statsSent', src |-> "poll"]}
             /\ interval' = PollMs
      /\ (ticks' # ticks)
          => /\ phase = "mounted"
             /\ interval = PollMs
             /\ ticks' = ticks + 1
             /\ statsSent' = statsSent + 1
             /\ NewStats = {[gen |-> statsSent', src |-> "poll"]}
      /\ pollSent' = (IF phase' = "constructed" THEN 0 ELSE 1) + ticks'
      /\ (\A r \in NewStats : r.src = "poll") => pollSent' - pollSent = Cardinality(NewStats)
      /\ (phase' = "mounted") => interval' = PollMs
      /\ (phase' = "unmounted") => interval' = 0
      /\ (phase = "unmounted")
          => /\ UNCHANGED <<statsSent, pollSent, ticks, viewVars>>
             /\ NewStats = {} ]_vars

\* torn down after a tick, with a polled stats request still unanswered
C10_Witness ==
  /\ phase = "unmounted"
  /\ ticks = 1
  /\ pollSent = 2
  /\ interval = 0
  /\ \E r \in statsInFlight : r.src = "poll"
  /\ stats = 0

\* the step dispatches a request of the kind / settles one
RecDispatched == recSent' # recSent
SearchDispatched == searchSent' # searchSent
RecSettled == recInFlight' # recInFlight /\ recInFlight' \subseteq recInFlight
SearchSettled ==
  searchInFlight' # searchInFlight /\ searchInFlight' \subseteq searchInFlight

\* C14: a recommendations fetch raises loading at dispatch and lowers it when
\* it settles, a search fetch does the same with searchLoading, on success
\* and on failure; neither kind touches the other kind's flag.
C14_LoadingFlagsFollowFetch ==
  [][ /\ RecDispatched => (loading' /\ UNCHANGED searchLoading)
      /\ SearchDispatched => (searchLoading' /\ UNCHANGED loading)
      /\ (Live /\ RecSettled) => (~loading' /\ UNCHANGED searchLoading)
      /\ (Live /\ SearchSettled) => (~searchLoading' /\ UNCHANGED loading)
    ]_vars

\* the recommendations fetch failed while a search is still loading
C14_Witness ==
  /\ error = RecErrMsg
  /\ ~loading
  /\ recInFlight = {}
  /\ searchLoading
  /\ searchInFlight # {}

\* C15: a failed stats or abArm fetch changes nothing the view shows (no
\* error banner, same lists, same snapshot, same arm), and a successful
\* stats fetch makes stats the value of its response.
C15_SecondaryFailuresSilent ==
  [][ /\ statsInFlight' # statsInFlight
         => \A r \in statsInFlight :
              /\ StatsFail(r) => UNCHANGED viewVars
              /\ (Live /\ StatsOk(r)) => stats' = r.gen
      /\ abInFlight' # abInFlight
         => \A r \in abInFlight : AbFail(r) => UNCHANGED viewVars
    ]_vars

\* the first stats and abArm fetches both failed: nothing shown, no banner,
\* the recommendations still on display
C15_Witness ==
  /\ statsSent = 1 /\ statsInFlight = {} /\ stats = 0
  /\ abSent = 1 /\ abInFlight = {} /\ abTestInfo = NoAb
  /\ recommendations # <<>>
  /\ error = Null

\* C16: with a blank user id the recommendations fetch and the abArm fetch
\* are no-ops: no request, loading not raised, error not touched, and the
\* list, the algorithm tag and the arm stay as they were.
C16_BlankUserFetchIsNoOp ==
  [][ ( /\ IsBlank(currentUser')
        /\ \/ IntentStep("changeUser")
           \/ FilterStep
           \/ IntentStep("refresh") )
        => /\ UNCHANGED <<recInFlight, recSent, abInFlight, abSent, loading,
                          recommendations, algorithm, abTestInfo>>
           /\ ~SearchDispatched => UNCHANGED error ]_vars

\* a refresh on the recommendations tab with user " ": only stats went out,
\* and the banner of the earlier failure is still up
C16_Witness ==
  /\ lastOp = Op("refresh", <<"recommendations">>)
  /\ currentUser = <<" ">>
  /\ error = RecErrMsg
  /\ recSent = 1
  /\ abSent = 1
  /\ statsSent = 2

\* nothing has been answered and no intent handled since construction
NothingYet ==
  /\ intents = 0
  /\ ticks = 0
  /\ Cardinality(recInFlight) = recSent
  /\ Cardinality(searchInFlight) = searchSent
  /\ Cardinality(statsInFlight) = statsSent
  /\ Cardinality(abInFlight) = abSent

\* C18: before any response has arrived (and before any intent) activeTab is
\* recommendations, both lists and lastSearchQuery are empty, error is unset.
C18_InitialState ==
  NothingYet
    => /\ activeTab = "recommendations"
       /\ recommendations = <<>>
       /\ searchResults = <<>>
       /\ lastSearchQuery = <<>>
       /\ error = Null

\* mounted, the first requests out, none answered
C18_Witness ==
  /\ phase = "mounted"
  /\ NothingYet
  /\ recSent = 1

\* C19: mounting with user demo_user_1 and no filter dispatches exactly one
\* recommendations request (user_id, n = 20, no content_type) and one abArm
\* request (user_id); when that recommendations request succeeds before any
\* intent, the recommendations tab displays its items and its algorithm.
C19_MountScenario ==
  [][ /\ (lastOp'.op = "mount" /\ lastOp.op = "init")
          => /\ NewRec = {[gen |-> 1,
                           params |-> [user_id |-> DemoUser, n |-> 20]]}
             /\ recSent' = 1
             /\ NewAb = {[gen |-> 1, user_id |-> DemoUser]}
             /\ abSent' = 1
      /\ \A r \in recInFlight : \A body \in RecBodies(r) :
           (r.gen = 1 /\ intents = 0 /\ body.recommendations.present
              /\ RecOk(r, body))
             => /\ activeTab' = "recommendations"
                /\ recommendations' = body.recommendations.v
                /\ algorithm' = body.algorithm
                /\ currentResults' = body.recommendations.v ]_vars

\* the mount request answered: its items and algorithm on display
C19_Witness ==
  /\ intents = 0
  /\ activeTab = "recommendations"
  /\ recommendations =
       <<[gen |-> 1, params |-> [user_id |-> DemoUser, n |-> 20]]>>
  /\ algorithm = 1
  /\ ~loading

\* the ids of the nodes in document.body / taken out of it
PresentIds == {notifications[i].id : i \in DOMAIN notifications}
RemovedIds == {x.id : x \in removed}

\* every node created is in document.body until it is taken out, once, at
\* the age VisibleMs + ExitMs, and is not there afterwards
NotificationLifetime ==
  /\ PresentIds \cup RemovedIds = 1..notifSeq
  /\ PresentIds \cap RemovedIds = {}
  /\ Cardinality(PresentIds) = Len(notifications)
  /\ Cardinality(RemovedIds) = Cardinality(removed)
  /\ \A i \in DOMAIN notifications :
       notifications[i].age <= VisibleMs + ExitMs
  /\ \A x \in removed : x.age = 3000 + 300

\* C11: a pushed notification is in document.body at once, stays for
\* 3000 + 300 ms whichever notification it is, is then removed exactly once
\* by its timer and not by a user action, and is never present again.
C11_NotificationLifetime ==
  /\ []NotificationLifetime
  /\ [][ /\ notifSeq' # notifSeq
            => /\ notifSeq' = notifSeq + 1
               /\ Len(notifications') = Len(notifications) + 1
               /\ notifications'[Len(notifications')].id = notifSeq'
         /\ removed' # removed
            => /\ UNCHANGED <<clicks, intents, lastOp>>
               /\ Cardinality(removed') = Cardinality(removed) + 1 ]_vars

\* two notifications have come and gone
C11_Witness ==
  /\ notifSeq = 2
  /\ notifications = <<>>
  /\ RemovedIds = {1, 2}

\* the step is one call of logInteraction
EmitStep == eventSent' # eventSent
NewEvents == eventInFlight' \ eventInFlight
LastNode(seq) == seq[Len(seq)]

\* C12: every emit posts one event that carries the userId of the moment of
\* the call, and its settling appends exactly one notification: a success
\* node when the POST succeeded, an error node when it failed.
C12_EmitPostsAndNotifies ==
  [][ /\ EmitStep
         => /\ eventSent' = eventSent + 1
            /\ Cardinality(NewEvents) = 1
            /\ \A e \in NewEvents : e.data.user_id = currentUser
            /\ UNCHANGED <<notifications, notifSeq>>
      /\ eventInFlight' # eventInFlight
         => \A r \in eventInFlight :
              /\ EventOk(r) => /\ notifSeq' = notifSeq + 1
                               /\ Len(notifications') = Len(notifications) + 1
                               /\ LastNode(notifications').type = "success"
              /\ EventFail(r) => /\ notifSeq' = notifSeq + 1
                                 /\ Len(notifications') = Len(notifications) + 1
                                 /\ LastNode(notifications').type = "error"
      /\ notifSeq' + Cardinality(eventInFlight') = eventSent' ]_vars

\* an event emitted after the user id was changed carries the new id
C12_Witness ==
  /\ currentUser = <<"u2", " ">>
  /\ \E e \in eventInFlight : e.data.user_id = <<"u2", " ">>

\* C13: an emit and its settling, success or failure, leave the lists, the
\* algorithm, the user id, the filter, the tab, the last query, both loading
\* flags and the error banner unchanged; a failure only adds an error node.
C13_EmitLeavesViewAlone ==
  [][ ( \/ EmitStep
        \/ eventInFlight' # eventInFlight
        \/ notifSeq' # notifSeq )
        => UNCHANGED <<recommendations, searchResults, algorithm, currentUser,
                       contentTypeFilter, activeTab, lastSearchQuery, loading,
                       searchLoading, error>> ]_vars

\* a failed POST: an error node in document.body, no banner, the list intact
C13_Witness ==
  /\ notifications # <<>>
  /\ notifications[1].type = "error"
  /\ error = Null
  /\ recommendations # <<>>

\* the counters of the requests dispatched, one per kind
sentVars == <<recSent, searchSent, statsSent, abSent, eventSent>>

\* the step handles a stimulus: mount or teardown, an intent, a card or modal
\* gesture, a polling tick
StimulusStep ==
  \/ phase' # phase
  \/ intents' # intents
  \/ clicks' # clicks
  \/ ticks' # ticks

\* C17: nothing is retried: a step that settles a request, failed or not, or
\* runs a timeout dispatches no request of any kind; requests go out only in
\* steps that handle a stimulus, and one gesture posts at most one event.
C17_NoAutomaticRetry ==
  [][ /\ sentVars' # sentVars
         => /\ StimulusStep
            /\ \A r \in recInFlight : ~RecFail(r)
            /\ \A r \in searchInFlight : ~SearchFail(r)
            /\ \A r \in statsInFlight : ~StatsFail(r)
            /\ \A r \in abInFlight : ~AbFail(r)
            /\ \A r \in eventInFlight : ~EventFail(r)
      /\ eventSent' <= eventSent + 1
      /\ eventSent' <= clicks' ]_vars

\* search, event, stats and abArm requests have failed; each kind was
\* dispatched once
C17_Witness ==
  /\ error = SearchErrMsg
  /\ searchInFlight = {}
  /\ notifications # <<>> /\ notifications[1].type = "error"
  /\ statsInFlight = {} /\ stats = 0
  /\ abInFlight = {} /\ abTestInfo = NoAb
  /\ recSent = 1 /\ searchSent = 1 /\ statsSent = 1 /\ abSent = 1
  /\ eventSent = 1

\* the view has room for one more intent and one more gesture
BudgetLeft ==
  /\ intents < MaxIntents
  /\ clicks + intents < MaxGestures

\* every intent the view offers in this state is enabled
IntentsAccepted ==
  /\ \A raw \in RawQueries : ENABLED SubmitSearch(raw)
  /\ \A tab \in Tabs : ENABLED ChangeTab(tab)
  /\ \A u \in UserIds : ENABLED ChangeUser(u)
  /\ \A f \in ContentTypes : ENABLED ChangeFilter(f)
  /\ ENABLED Refresh
  /\ \A i \in DOMAIN currentResults :
       /\ ~ModalShown => ENABLED ClickCard(i)
       /\ \A a \in QuickActions : ENABLED QuickAction(i, a, 0)
  /\ ModalShown => \A a \in ModalActions : ENABLED ModalAction(a, 0)

\* C20: no failure is fatal: once no recommendations and no search request
\* is in flight both loading flags are false, and every intent is accepted;
\* with the banner of a failure up an intent still dispatches its request.
C20_NoFailureIsFatal ==
  /\ [](( /\ phase = "mounted"
          /\ recInFlight = {}
          /\ searchInFlight = {} )
          => /\ ~loading
             /\ ~searchLoading
             /\ BudgetLeft => IntentsAccepted)
  /\ [][ error # Null
           => /\ (IntentStep("submitSearch") /\ ~IsBlank(lastOp'.arg))
                 => (searchSent' = searchSent + 1 /\ error' = Null)
              /\ ( /\ IntentStep("changeUser")
                    /\ currentUser' # currentUser
                    /\ ~IsBlank(currentUser') )
                 => (recSent' = recSent + 1 /\ error' = Null)
              /\ clicks' # clicks /\ lastOp'.op # "closeModal"
                 => eventSent' = eventSent + 1 ]_vars

\* a telemetry POST, the stats fetch and the abArm fetch have failed, the
\* cards are on display and the view takes a further intent
C20_Witness ==
  /\ notifications # <<>> /\ notifications[1].type = "error"
  /\ statsSent = 1 /\ statsInFlight = {} /\ stats = 0
  /\ abSent = 1 /\ abInFlight = {} /\ abTestInfo = NoAb
  /\ recInFlight = {}
  /\ currentResults # <<>>
  /\ BudgetLeft
  /\ IntentsAccepted

\* C21: currentUser changes only in a changeUser step and contentTypeFilter
\* only in a changeFilter or clearFilter step: no response, failure, tick,
\* notification timer, refresh, tab switch, search submission or emit
\* changes either.
C21_UserAndFilterOnlyByEdit ==
  [][ /\ currentUser' # currentUser => IntentStep("changeUser")
      /\ contentTypeFilter' # contentTypeFilter => FilterStep ]_vars

\* a polling tick has run and its stats response has been applied; user and
\* filter are as constructed
C21_Witness ==
  /\ lastOp = Op("tick", <<>>)
  /\ stats = 2
  /\ currentUser = DemoUser
  /\ contentTypeFilter = ""

\* the tokens of a typed text that are not white space
NonBlank(text) == SelectSeq(text, LAMBDA t : t # " ")

EmitGesture ==
  /\ clicks' = clicks + 1
  /\ lastOp'.op \in {"itemClick", "quickAction", "modalAction"}

\* C23: emits are independent: every emitting gesture adds one POST to those
\* in flight, whatever is in flight already; every settling takes one event
\* out, adds one notification and leaves the other events and the earlier
\* notifications' kinds alone; each event in flight can still succeed or fail.
C23_EmitsIndependent ==
  /\ [][ /\ EmitGesture
            => /\ eventSent' = eventSent + 1
               /\ eventInFlight \subseteq eventInFlight'
               /\ Cardinality(eventInFlight') = Cardinality(eventInFlight) + 1
         /\ eventInFlight' # eventInFlight /\ ~EmitGesture
            => /\ eventInFlight' \subseteq eventInFlight
               /\ Cardinality(eventInFlight') = Cardinality(eventInFlight) - 1
               /\ notifSeq' = notifSeq + 1
               /\ Len(notifications') = Len(notifications) + 1
               /\ \A i \in DOMAIN notifications :
                    notifications'[i].type = notifications[i].type ]_vars
  /\ [](\A r \in eventInFlight : ENABLED EventOk(r) /\ ENABLED EventFail(r))

\* two events for the same item and type are in flight together
C23_Witness ==
  \E a, b \in eventInFlight : a.gen # b.gen /\ a.data = b.data

\* C24: notifications can be on display together and leave in the order they
\* were pushed: a node still present was pushed after every node already
\* removed, the nodes stand in push order, and a push leaves the nodes
\* already there, their timers included, as they were.
C24_NotificationsLeaveInOrder ==
  /\ [](\A x \in RemovedIds : \A p \in PresentIds : x < p)
  /\ [](\A i, j \in DOMAIN notifications :
          i < j => /\ notifications[i].id < notifications[j].id
                   /\ notifications[i].age >= notifications[j].age)
  /\ [][ notifSeq' # notifSeq
           => \A i \in DOMAIN notifications :
                notifications'[i] = notifications[i] ]_vars

\* the first node has left while the second, pushed during the first one's
\* lifetime, is still on display
C24_Witness ==
  /\ RemovedIds = {1}
  /\ Len(notifications) = 1
  /\ notifications[1].id = 2
  /\ notifications[1].age > 0

\* C25: while a recommendations request is in flight loading is true, and
\* while a search request is in flight searchLoading is true, also when
\* requests of one kind overlap.
C25_LoadingWhileInFlight ==
  /\ recInFlight # {} => loading
  /\ searchInFlight # {} => searchLoading

\* the request was made with user id u and filter f
MadeWith(r, u, f) ==
  /\ r.params.user_id = u
  /\ IF f = "" THEN "content_type" \notin DOMAIN r.params
               ELSE /\ "content_type" \in DOMAIN r.params
                    /\ r.params.content_type = f

\* C26: with no recommendations request in flight and a non-empty list, the
\* list and the algorithm tag come from one response, and that response
\* answers a request made with the current user id and the current filter
\* (stated for a user id that is not blank, for which a fetch is made).
C26_SettledListIsCurrent ==
  ( /\ recInFlight = {}
    /\ recommendations # <<>>
    /\ ~IsBlank(currentUser) )
    => /\ algorithm = recommendations[1].gen
       /\ MadeWith(recommendations[1], currentUser, contentTypeFilter)

\* the banner never stands over a list of the kind that failed
BannerMeansEmptyList ==
  /\ error = RecErrMsg => recommendations = <<>>
  /\ error = SearchErrMsg => searchResults = <<>>

\* C27: with the recommendations-failure message up the recommendations list
\* is empty, with the search-failure message up searchResults is empty, and
\* the banner is cleared only by a step that dispatches a recommendations or
\* a search request.
C27_BannerAndLists ==
  /\ []BannerMeansEmptyList
  /\ [][ (error # Null /\ error' = Null)
           => (RecDispatched \/ SearchDispatched) ]_vars

\* one interval timer, armed once, for as long as the view is mounted
OnePollingTimer ==
  /\ phase = "constructed" => (interval = 0 /\ intervalSeq = 0)
  /\ phase = "mounted" => (interval = 30000 /\ intervalSeq = 1)
  /\ phase = "unmounted" => (interval = 0 /\ intervalSeq = 1)

\* C28: at most one polling timer is live: exactly one while the view is
\* mounted, none after teardown; no intent (user, filter, search type, tab,
\* search, refresh) arms another timer or re-arms the one running.
C28_OnePollingTimer ==
  /\ []OnePollingTimer
  /\ [][ intents' # intents => UNCHANGED <<interval, intervalSeq>> ]_vars

\* the user id was changed after a tick: still the timer armed at mount
C28_Witness ==
  /\ lastOp = Op("changeUser", <<"u2", " ">>)
  /\ ticks = 1
  /\ interval = 30000
  /\ intervalSeq = 1

\* C29: an open modal is closed only by the user or by a delayed close; a
\* modal that was just opened by an item click, with no action taken in it
\* yet, is not closed by a delayed close of an earlier opening; an action
\* other than purchase and bookmark arms no delayed close and leaves the
\* modal open.
C29_ModalClosesInItsOpening ==
  [][ /\ (isModalOpen /\ ~isModalOpen')
         => (lastOp'.op = "closeModal" \/ closeTimers' # closeTimers)
      /\ (lastOp.op = "itemClick" /\ isModalOpen /\ UNCHANGED clicks)
         => isModalOpen'
      /\ ( /\ clicks' # clicks
           /\ lastOp'.op = "modalAction"
           /\ lastOp'.arg[1] \notin {"purchase", "bookmark"} )
         => (UNCHANGED closeTimers /\ isModalOpen') ]_vars

====
